---- MODULE Spec2Model ----
(***************************************************************************)
(* Model of ghast's Analyzer (src/analyzer/analyzer.py): the rule registry, *)
(* the precondition gate, the ten rule predicates and run_checks.           *)
(*                                                                         *)
(* Representation of Python values:                                        *)
(*   - a dict is a function; `k in d` is  k \in DOMAIN d;                    *)
(*   - self.jobs (an insertion-ordered dict of job id -> job) is the        *)
(*     sequence of its values in iteration order; the job id is the index;  *)
(*   - a text that the code searches with a regular expression or with the  *)
(*     substring operator is a sequence of one-character strings;           *)
(*   - a field whose Python type the code inspects (`on`, `permissions`,    *)
(*     `runs-on`, matrix `runner`) is a record [t |-> type, v |-> value];   *)
(*   - a predicate yields "pass" (True), "fail" (False), or the name of the *)
(*     exception it raises.                                                 *)
(***************************************************************************)
EXTENDS Integers, Sequences, FiniteSets, TLC

VARIABLES
    ignore_warnings,    \* self.ignore_warnings
    ignore_checks,      \* self.ignore_checks
    verbose,            \* self.verbose
    checks,             \* self.checks, in key order
    action,             \* self.action
    jobs,               \* self.jobs
    pc,                 \* position of run_checks: "ready", "loop", "done"
    idx,                \* position of the loop over self.checks
    passed_all_checks,  \* local of run_checks
    fail_checks,        \* local of run_checks
    invoked,            \* history: the predicates invoked by this call, with results
    outcome,            \* how the last call ended: "none", "returned", or an exception
    ret,                \* the value the last call returned
    reported,           \* the failed checks printed by the last call
    tracked,            \* history: a document whose first result is remembered
    trackedResult       \* history: that first result

vars == <<ignore_warnings, ignore_checks, verbose, checks, action, jobs, pc, idx,
          passed_all_checks, fail_checks, invoked, outcome, ret, reported,
          tracked, trackedResult>>

-----------------------------------------------------------------------------
(* Character classes and regular-expression search.                        *)

Digit == {"0", "1", "2", "3", "4", "5", "6", "7", "8", "9"}

HexDigit == Digit \cup {"a", "b", "c", "d", "e", "f"}

Letter ==
    {"a", "b", "c", "d", "e", "f", "g", "h", "i", "j", "k", "l", "m", "n", "o", "p",
     "q", "r", "s", "t", "u", "v", "w", "x", "y", "z",
     "A", "B", "C", "D", "E", "F", "G", "H", "I", "J", "K", "L", "M", "N", "O", "P",
     "Q", "R", "S", "T", "U", "V", "W", "X", "Y", "Z"}

\* the class [\w-]
WordOrDash == Letter \cup Digit \cup {"_", "-"}

\* the literal texts of the source
LitAtV == <<"@", "v">>

LitCacheAction == <<"a", "c", "t", "i", "o", "n", "s", "/", "c", "a", "c", "h", "e", "@">>

LitAwsAction == <<"a", "w", "s", "-", "a", "c", "t", "i", "o", "n", "s", "/", "c", "o", "n", "f", "i", 
        "g", "u", "r", "e", "-", "a", "w", "s", "-", "c", "r", "e", "d", "e", "n", "t", "i", 
        "a", "l", "s", "@">>

LitOpenBraces == <<"$", "{", "{">>

LitGithub == <<"g", "i", "t", "h", "u", "b">>

LitCloseBraces == <<"}", "}">>

LitGhPr == <<"g", "h", " ", "p", "r", " ">>

LitCreate == <<"c", "r", "e", "a", "t", "e">>

LitReview == <<"r", "e", "v", "i", "e", "w">>

LitApprove == <<"-", "-", "a", "p", "p", "r", "o", "v", "e">>

LitContents == <<"c", "o", "n", "t", "e", "n", "t", "s">>

LitDeployments == <<"d", "e", "p", "l", "o", "y", "m", "e", "n", "t", "s">>

LitPackages == <<"p", "a", "c", "k", "a", "g", "e", "s">>

LitActions == <<"a", "c", "t", "i", "o", "n", "s">>

WriteAll == <<"w", "r", "i", "t", "e", "-", "a", "l", "l">>

ReadAll == <<"r", "e", "a", "d", "-", "a", "l", "l">>

\* the literal lit occurs in s at position i
LitAt(s, i, lit) ==
    /\ i >= 1
    /\ i + Len(lit) - 1 <= Len(s)
    /\ \A k \in 1..Len(lit) : s[i + k - 1] = lit[k]

\* Python's `lit in s` for two strings
IsSubstring(lit, s) == \E i \in 1..(Len(s) + 1) : LitAt(s, i, lit)

\* `.` of a regular expression: any character but a newline
NoNewline(s, from, to) == \A k \in from..to : s[k] # "\n"

\* (v\d+(\.\d+)?(\.\d+)?|[a-f0-9]{40}) matches at position i
VersionOrHashAt(s, i) ==
    \/ /\ i + 1 <= Len(s)
       /\ s[i] = "v"
       /\ s[i + 1] \in Digit
    \/ /\ i + 39 <= Len(s)
       /\ \A k \in 0..39 : s[i + k] \in HexDigit

\* search(ACTION_WITH_VERSION_REGEX, uses): ([\w-]+)\/([\w-]+)@v\d+(\.\d+)?(\.\d+)?
ACTION_WITH_VERSION_REGEX(uses) ==
    \E i \in 2..Len(uses) : \E j \in (i + 2)..Len(uses) :
        /\ uses[i - 1] \in WordOrDash
        /\ uses[i] = "/"
        /\ \A k \in (i + 1)..(j - 1) : uses[k] \in WordOrDash
        /\ LitAt(uses, j, LitAtV)
        /\ j + 2 <= Len(uses)
        /\ uses[j + 2] \in Digit

\* search(CACHE_ACTION_REGEX, uses): actions\/cache@(v\d+(\.\d+)?(\.\d+)?|[a-f0-9]{40})
CACHE_ACTION_REGEX(uses) ==
    \E i \in 1..Len(uses) :
        /\ LitAt(uses, i, LitCacheAction)
        /\ VersionOrHashAt(uses, i + Len(LitCacheAction))

\* search(CONFIGURE_AWS_CREDS_ACTION_REGEX, uses)
CONFIGURE_AWS_CREDS_ACTION_REGEX(uses) ==
    \E i \in 1..Len(uses) :
        /\ LitAt(uses, i, LitAwsAction)
        /\ VersionOrHashAt(uses, i + Len(LitAwsAction))

\* search(DANGEROUS_GITHUB_CONTEXT_VARIABLE_REGEX, script): \$\{\{.*github.+\}\}
DANGEROUS_GITHUB_CONTEXT_VARIABLE_REGEX(script) ==
    \E i \in 1..Len(script) : \E j \in (i + 3)..Len(script) :
      \E k \in (j + 7)..Len(script) :
        /\ LitAt(script, i, LitOpenBraces)
        /\ LitAt(script, j, LitGithub)
        /\ LitAt(script, k, LitCloseBraces)
        /\ NoNewline(script, i + 3, k - 1)

\* search(GH_CLI_PR_APPROVAL_REGEX, script): gh pr (review.*--approve|create.*)
GH_CLI_PR_APPROVAL_REGEX(script) ==
    \E i \in 1..Len(script) :
        /\ LitAt(script, i, LitGhPr)
        /\ \/ LitAt(script, i + 6, LitCreate)
           \/ /\ LitAt(script, i + 6, LitReview)
              /\ \E k \in (i + 12)..Len(script) :
                    /\ LitAt(script, k, LitApprove)
                    /\ NoNewline(script, i + 12, k - 1)

-----------------------------------------------------------------------------
(* The registry and the rule predicates.                                   *)

\* self.checks as built by __init__, in key order
RegistryChecks ==
    << [name |-> <<"_", "c", "h", "e", "c", "k", "_", "f", "o", "r", "_", "3", "p", "_", "a", "c", "t", 
        "i", "o", "n", "s", "_", "w", "i", "t", "h", "o", "u", "t", "_", "h", "a", "s", "h">>, level |-> "FAIL"],
       [name |-> <<"_", "c", "h", "e", "c", "k", "_", "f", "o", "r", "_", "a", "l", "l", "o", "w", "_", 
        "u", "n", "s", "e", "c", "u", "r", "e", "_", "c", "o", "m", "m", "a", "n", "d", "s">>, level |-> "FAIL"],
       [name |-> <<"_", "c", "h", "e", "c", "k", "_", "f", "o", "r", "_", "c", "a", "c", "h", "e", "_", 
        "a", "c", "t", "i", "o", "n", "_", "u", "s", "a", "g", "e">>, level |-> "WARN"],
       [name |-> <<"_", "c", "h", "e", "c", "k", "_", "f", "o", "r", "_", "d", "a", "n", "g", "e", "r", 
        "o", "u", "s", "_", "w", "r", "i", "t", "e", "_", "p", "e", "r", "m", "i", "s", "s", 
        "i", "o", "n", "s">>, level |-> "FAIL"],
       [name |-> <<"_", "c", "h", "e", "c", "k", "_", "f", "o", "r", "_", "i", "n", "l", "i", "n", "e", 
        "_", "s", "c", "r", "i", "p", "t">>, level |-> "WARN"],
       [name |-> <<"_", "c", "h", "e", "c", "k", "_", "f", "o", "r", "_", "p", "u", "l", "l", "_", "r", 
        "e", "q", "u", "e", "s", "t", "_", "t", "a", "r", "g", "e", "t">>, level |-> "FAIL"],
       [name |-> <<"_", "c", "h", "e", "c", "k", "_", "f", "o", "r", "_", "s", "c", "r", "i", "p", "t", 
        "_", "i", "n", "j", "e", "c", "t", "i", "o", "n">>, level |-> "FAIL"],
       [name |-> <<"_", "c", "h", "e", "c", "k", "_", "f", "o", "r", "_", "s", "e", "l", "f", "_", "h", 
        "o", "s", "t", "e", "d", "_", "r", "u", "n", "n", "e", "r", "s">>, level |-> "WARN"],
       [name |-> <<"_", "c", "h", "e", "c", "k", "_", "f", "o", "r", "_", "a", "w", "s", "_", "c", "o", 
        "n", "f", "i", "g", "u", "r", "e", "_", "c", "r", "e", "d", "e", "n", "t", "i", "a", 
        "l", "s", "_", "n", "o", "n", "_", "o", "i", "d", "c">>, level |-> "WARN"],
       [name |-> <<"_", "c", "h", "e", "c", "k", "_", "f", "o", "r", "_", "p", "u", "l", "l", "_", "r", 
        "e", "q", "u", "e", "s", "t", "_", "c", "r", "e", "a", "t", "e", "_", "o", "r", "_", 
        "a", "p", "p", "r", "o", "v", "e">>, level |-> "FAIL"] >>

Errors == {"KeyError", "TypeError"}

\* the steps of all jobs, in the order the nested loops visit them
RECURSIVE AllSteps(_)
AllSteps(js) ==
    IF js = <<>> THEN <<>> ELSE Head(js)["steps"] \o AllSteps(Tail(js))

_action_has_required_elements(act, js) ==
    /\ \A key \in {"name", "on", "jobs"} : key \in DOMAIN act
    /\ \A j \in 1..Len(js) : "steps" \in DOMAIN js[j]

\* the inner `break` leaves only the loop over one job's steps; passed stays False
_check_for_3p_actions_without_hash(js, vb) ==
    IF \E i \in 1..Len(AllSteps(js)) :
            /\ "uses" \in DOMAIN AllSteps(js)[i]
            /\ ACTION_WITH_VERSION_REGEX(AllSteps(js)[i]["uses"])
    THEN "fail"
    ELSE "pass"

_check_for_inline_script(js, vb) ==
    IF \E i \in 1..Len(AllSteps(js)) : "run" \in DOMAIN AllSteps(js)[i]
    THEN "fail"
    ELSE "pass"

_check_for_script_injection(js, vb) ==
    IF \E i \in 1..Len(AllSteps(js)) :
            /\ "run" \in DOMAIN AllSteps(js)[i]
            /\ DANGEROUS_GITHUB_CONTEXT_VARIABLE_REGEX(AllSteps(js)[i]["run"])
    THEN "fail"
    ELSE "pass"

UnsecureStep(step) ==
    /\ "env" \in DOMAIN step
    /\ "ACTIONS_ALLOW_UNSECURE_COMMANDS" \in DOMAIN step["env"]

\* returns at the first matching step; verbose formats step['name'] before that
_check_for_allow_unsecure_commands(js, vb) ==
    LET steps == AllSteps(js)
        matching == {i \in 1..Len(steps) : UnsecureStep(steps[i])}
        first == CHOOSE i \in matching : \A k \in matching : i <= k
    IN  IF matching = {} THEN "pass"
        ELSE IF vb /\ "name" \notin DOMAIN steps[first] THEN "KeyError"
        ELSE "fail"

_check_for_pull_request_target(act) ==
    LET event_triggers == act["on"]
    IN  IF event_triggers.t = "list"
        THEN IF \E i \in 1..Len(event_triggers.v) :
                    event_triggers.v[i] = "pull_request_target"
             THEN "fail" ELSE "pass"
        ELSE IF event_triggers.t = "dict"
        THEN IF "pull_request_target" \in DOMAIN event_triggers.v
             THEN "fail" ELSE "pass"
        ELSE IF event_triggers.t = "str"
        THEN IF event_triggers.v = "pull_request_target"
             THEN "fail" ELSE "pass"
        ELSE "pass"

_check_for_cache_action_usage(js, vb) ==
    IF \E i \in 1..Len(AllSteps(js)) :
            /\ "uses" \in DOMAIN AllSteps(js)[i]
            /\ CACHE_ACTION_REGEX(AllSteps(js)[i]["uses"])
    THEN "fail"
    ELSE "pass"

dangerous_scopes == <<"contents", "deployments", "packages", "actions">>

ScopeText(scope) ==
    CASE scope = "contents" -> LitContents
      [] scope = "deployments" -> LitDeployments
      [] scope = "packages" -> LitPackages
      [] scope = "actions" -> LitActions

\* the loop `for scope in dangerous_scopes` over one permissions value:
\* "fail" when it sets passed = False and returns, "pass" when it falls through,
\* "TypeError" when permissions is a string containing a scope name
\* (permissions[scope] then indexes a str with a str)
ScopeLoop(permissions) ==
    IF permissions.t = "dict"
    THEN IF \E s \in 1..Len(dangerous_scopes) :
                /\ dangerous_scopes[s] \in DOMAIN permissions.v
                /\ permissions.v[dangerous_scopes[s]] = "write"
         THEN "fail" ELSE "pass"
    ELSE IF \E s \in 1..Len(dangerous_scopes) :
                IsSubstring(ScopeText(dangerous_scopes[s]), permissions.v)
         THEN "TypeError" ELSE "pass"

IsWriteAll(permissions) == permissions.t = "str" /\ permissions.v = WriteAll

\* the loop over the jobs without the test of a job's write-all
RECURSIVE JobPermissionsNoWriteAll(_, _, _)
JobPermissionsNoWriteAll(js, j, passed) ==
    IF j > Len(js) THEN passed
    ELSE IF "permissions" \notin DOMAIN js[j] THEN JobPermissionsNoWriteAll(js, j + 1, passed)
    ELSE LET scopes == ScopeLoop(js[j]["permissions"])
         IN  IF scopes = "pass" THEN JobPermissionsNoWriteAll(js, j + 1, passed) ELSE scopes

\* the loop over the jobs, from job j on, with the value of passed so far
RECURSIVE JobPermissions(_, _, _)
JobPermissions(js, j, passed) ==
    IF j > Len(js) THEN passed
    ELSE IF "permissions" \notin DOMAIN js[j] THEN JobPermissions(js, j + 1, passed)
    ELSE LET permissions == js[j]["permissions"]
             now == IF IsWriteAll(permissions) THEN "fail" ELSE passed
             scopes == ScopeLoop(permissions)
         IN  IF scopes = "pass" THEN JobPermissions(js, j + 1, now) ELSE scopes

_check_for_dangerous_write_permissions(act, js, vb) ==
    IF "permissions" \in DOMAIN act
    THEN IF IsWriteAll(act["permissions"]) THEN "fail"
         ELSE IF ScopeLoop(act["permissions"]) # "pass"
         THEN ScopeLoop(act["permissions"])
         ELSE JobPermissions(js, 1, "pass")
    ELSE JobPermissions(js, 1, "pass")

default_runners ==
    <<"windows-latest", "windows-2022", "windows-2019", "ubuntu-latest",
      "ubuntu-22.04", "ubuntu-20.04", "macos-13", "macos-13-xl", "macos-latest",
      "macos-12", "macos-latest-xl", "macos-12-xl", "macos-11">>

InDefaultRunners(runner) == \E i \in 1..Len(default_runners) : default_runners[i] = runner

AnyNotDefault(runners) == \E i \in 1..Len(runners) : ~InDefaultRunners(runners[i])

\* the matrix branch of one job sets passed = False and breaks
MatrixRunnerFails(job) ==
    /\ "strategy" \in DOMAIN job
    /\ "matrix" \in DOMAIN job["strategy"]
    /\ "runner" \in DOMAIN job["strategy"]["matrix"]
    /\ job["strategy"]["matrix"]["runner"].t = "list"
    /\ AnyNotDefault(job["strategy"]["matrix"]["runner"].v)

\* the runs-on branch without the mapping shape
RunsOnFailsNoGroup(job) ==
    /\ "runs-on" \in DOMAIN job
    /\ LET runs_on == job["runs-on"]
       IN  \/ runs_on.t = "list" /\ AnyNotDefault(runs_on.v)
           \/ runs_on.t = "str" /\ ~InDefaultRunners(runs_on.v)

\* the runs-on branch of one job sets passed = False and returns or breaks
RunsOnFails(job) ==
    /\ "runs-on" \in DOMAIN job
    /\ LET runs_on == job["runs-on"]
       IN  \/ runs_on.t = "list" /\ AnyNotDefault(runs_on.v)
           \/ /\ runs_on.t = "dict"
              /\ "group" \in DOMAIN runs_on.v
              /\ ~InDefaultRunners(runs_on.v["group"])
           \/ runs_on.t = "str" /\ ~InDefaultRunners(runs_on.v)

\* the loop over the jobs, from job j on; every failing branch leaves the loop
RECURSIVE SelfHostedFrom(_, _)
SelfHostedFrom(js, j) ==
    IF j > Len(js) THEN "pass"
    ELSE IF MatrixRunnerFails(js[j]) THEN "fail"
    ELSE IF RunsOnFails(js[j]) THEN "fail"
    ELSE SelfHostedFrom(js, j + 1)

_check_for_self_hosted_runners(js) == SelfHostedFrom(js, 1)

non_oidc_inputs == {"aws-access-key-id", "web-identity-token-file"}

AwsStep(step) ==
    /\ "uses" \in DOMAIN step
    /\ CONFIGURE_AWS_CREDS_ACTION_REGEX(step["uses"])

\* what one step that uses the action does: step["with"] is read unguarded;
\* the diagnostic formats step['name']; `if passed: passed = False` is at the
\* level of `if action:`, outside the test of the inputs
AwsStepRaises(step, vb) ==
    \/ "with" \notin DOMAIN step
    \/ /\ vb
       /\ (DOMAIN step["with"]) \cap non_oidc_inputs # {}
       /\ "name" \notin DOMAIN step

_check_for_aws_configure_credentials_non_oidc(js, vb) ==
    LET steps == AllSteps(js)
    IN  IF \E i \in 1..Len(steps) : AwsStep(steps[i]) /\ AwsStepRaises(steps[i], vb)
        THEN "KeyError"
        ELSE IF \E i \in 1..Len(steps) : AwsStep(steps[i])
        THEN "fail"
        ELSE "pass"

PrStep(step) ==
    /\ "run" \in DOMAIN step
    /\ GH_CLI_PR_APPROVAL_REGEX(step["run"])

_check_for_pull_request_create_or_approve(js, vb) ==
    LET steps == AllSteps(js)
    IN  IF vb /\ \E i \in 1..Len(steps) : PrStep(steps[i]) /\ "name" \notin DOMAIN steps[i]
        THEN "KeyError"
        ELSE IF \E i \in 1..Len(steps) : PrStep(steps[i])
        THEN "fail"
        ELSE "pass"

\* Analyzer.__dict__[check](self)
Predicate(check, act, js, vb) ==
    CASE check = RegistryChecks[1].name -> _check_for_3p_actions_without_hash(js, vb)
      [] check = RegistryChecks[2].name -> _check_for_allow_unsecure_commands(js, vb)
      [] check = RegistryChecks[3].name -> _check_for_cache_action_usage(js, vb)
      [] check = RegistryChecks[4].name ->
            _check_for_dangerous_write_permissions(act, js, vb)
      [] check = RegistryChecks[5].name -> _check_for_inline_script(js, vb)
      [] check = RegistryChecks[6].name -> _check_for_pull_request_target(act)
      [] check = RegistryChecks[7].name -> _check_for_script_injection(js, vb)
      [] check = RegistryChecks[8].name -> _check_for_self_hosted_runners(js)
      [] check = RegistryChecks[9].name ->
            _check_for_aws_configure_credentials_non_oidc(js, vb)
      [] check = RegistryChecks[10].name ->
            _check_for_pull_request_create_or_approve(js, vb)

-----------------------------------------------------------------------------
(* The documents the caller may supply.                                    *)

MaxSteps == 2

MaxJobs == 2

MaxTrackedCalls == 2

SeqsUpTo(S, n) == UNION {[1..k -> S] : k \in 0..n}

EmptyDict == [k \in {} |-> k]

Str(v) == [t |-> "str", v |-> v]

List(v) == [t |-> "list", v |-> v]

Dict(v) == [t |-> "dict", v |-> v]

StepCheckoutTag == [uses |-> <<"a", "c", "t", "i", "o", "n", "s", "/", "c", "h", "e", "c", "k", "o", "u", "t", "@", 
        "v", "3">>]

StepCacheHash ==
    [name |-> "cache", uses |-> <<"a", "c", "t", "i", "o", "n", "s", "/", "c", "a", "c", "h", "e", "@", "8", "e", "5", 
        "e", "7", "e", "5", "a", "b", "8", "b", "3", "7", "0", "d", "6", "c", "3", "2", "9", 
        "e", "c", "4", "8", "0", "2", "2", "1", "3", "3", "2", "a", "d", "a", "5", "7", "f", 
        "0", "a", "b">>]

StepRun == [run |-> <<"m", "a", "k", "e", " ", "t", "e", "s", "t">>]

StepInjection == [name |-> "greet", run |-> <<"e", "c", "h", "o", " ", "$", "{", "{", " ", "g", "i", "t", "h", "u", "b", ".", "e", 
        "v", "e", "n", "t", ".", "i", "s", "s", "u", "e", ".", "t", "i", "t", "l", "e", " ", 
        "}", "}">>]

StepPrCreate == [run |-> <<"g", "h", " ", "p", "r", " ", "c", "r", "e", "a", "t", "e", " ", "-", "-", "f", "i", 
        "l", "l">>]

StepPrApprove == [name |-> "approve", run |-> <<"g", "h", " ", "p", "r", " ", "r", "e", "v", "i", "e", "w", " ", "7", " ", "-", "-", 
        "a", "p", "p", "r", "o", "v", "e">>]

StepUnsecureEnv == [env |-> [ACTIONS_ALLOW_UNSECURE_COMMANDS |-> "true"]]

StepAwsKeys ==
    [name |-> "aws", uses |-> <<"a", "w", "s", "-", "a", "c", "t", "i", "o", "n", "s", "/", "c", "o", "n", "f", "i", 
        "g", "u", "r", "e", "-", "a", "w", "s", "-", "c", "r", "e", "d", "e", "n", "t", "i", 
        "a", "l", "s", "@", "v", "4">>]
        @@ ("with" :> ("aws-access-key-id" :> "key" @@ "aws-region" :> "eu"))

StepAwsOidc ==
    [name |-> "aws",
     uses |-> <<"a", "w", "s", "-", "a", "c", "t", "i", "o", "n", "s", "/", "c", "o", "n", "f", "i", 
        "g", "u", "r", "e", "-", "a", "w", "s", "-", "c", "r", "e", "d", "e", "n", "t", "i", 
        "a", "l", "s", "@", "e", "3", "d", "d", "6", "a", "4", "2", "9", "d", "7", "3", "0", 
        "0", "a", "6", "a", "4", "c", "1", "9", "6", "c", "2", "6", "e", "0", "7", "1", "d", 
        "4", "2", "e", "0", "3", "4", "3", "5", "0", "2">>]
        @@ ("with" :> ("role-to-assume" :> "role" @@ "aws-region" :> "eu"))

StepAwsNoWith ==
    [uses |-> <<"a", "w", "s", "-", "a", "c", "t", "i", "o", "n", "s", "/", "c", "o", "n", "f", "i", 
        "g", "u", "r", "e", "-", "a", "w", "s", "-", "c", "r", "e", "d", "e", "n", "t", "i", 
        "a", "l", "s", "@", "e", "3", "d", "d", "6", "a", "4", "2", "9", "d", "7", "3", "0", 
        "0", "a", "6", "a", "4", "c", "1", "9", "6", "c", "2", "6", "e", "0", "7", "1", "d", 
        "4", "2", "e", "0", "3", "4", "3", "5", "0", "2">>]

StepUnsecureEnvNamed ==
    [name |-> "legacy", run |-> <<"e", "c", "h", "o", " ", ":", ":", "s", "e", "t", "-", "e", "n", "v", " ", "n", "a", 
        "m", "e", "=", "A", ":", ":", "b">>,
     env |-> [ACTIONS_ALLOW_UNSECURE_COMMANDS |-> "true"]]

StepCatalogue == {StepCheckoutTag, StepRun, StepAwsOidc, StepAwsNoWith}

Top == [name |-> "ci", on |-> Str("push")]

WithJobs(top, js) == top @@ [jobs |-> js]

JobNoSteps == ("runs-on" :> Str("ubuntu-latest"))

TailJobs == {JobNoSteps, [steps |-> <<StepPrApprove>>]}

\* one job with every list of at most MaxSteps steps of the catalogue, and with
\* some lists of the other steps
SingleJobDocs ==
    {WithJobs(Top, <<[steps |-> sl]>>) :
        sl \in SeqsUpTo(StepCatalogue, MaxSteps) \cup
               {<<StepCacheHash>>, <<StepInjection>>, <<StepAwsKeys>>, <<StepUnsecureEnv>>,
                <<StepCacheHash, StepRun, StepAwsOidc>>,
                <<StepUnsecureEnvNamed, StepUnsecureEnv>>,
                <<StepAwsOidc, StepAwsKeys>>,
                <<StepPrApprove, StepInjection>>,
                <<StepPrCreate>>, <<StepRun, StepPrCreate>>, <<StepPrCreate, StepAwsNoWith>>,
                <<StepCheckoutTag, StepPrCreate>>}}

\* several jobs: a first job followed by at most MaxJobs - 1 others
MultiJobDocs ==
    {WithJobs(Top, <<[steps |-> sl]>> \o tail) :
        sl \in {<<>>, <<StepCheckoutTag>>, <<StepAwsNoWith>>, <<StepRun>>},
        tail \in SeqsUpTo(TailJobs, MaxJobs - 1) \ {<<>>}}

\* the shapes of the top level: missing keys, the trigger shapes, permissions
TopDocs ==
    {WithJobs(top, <<[steps |-> sl]>>) :
        top \in {[name |-> "ci"],
                 [on |-> Str("push")],
                 [name |-> "ci", on |-> Str("pull_request_target")],
                 [name |-> "ci", on |-> List(<<"push", "pull_request_target">>)],
                 [name |-> "ci", on |-> List(<<"push", "pull_request">>)],
                 [name |-> "ci", on |-> Dict([pull_request_target |-> "x"])],
                 [name |-> "ci", on |-> Dict([push |-> "x"])],
                 [name |-> "ci", on |-> Str("push"), permissions |-> Str(WriteAll)]},
        sl \in {<<>>, <<StepCheckoutTag>>}}
    \cup {Top,
          [name |-> "ci", on |-> Str("pull_request_target"),
           permissions |-> Str(WriteAll)],
          WithJobs(Top, <<>>)}

Docs == SingleJobDocs \cup MultiJobDocs \cup TopDocs

\* documents that differ in their permissions only
PermissionValues ==
    {Str(ReadAll), Str(WriteAll), Dict([contents |-> "write"]),
     Dict([deployments |-> "write"]), Dict([packages |-> "write"]),
     Dict([actions |-> "write", contents |-> "none"]),
     Dict([issues |-> "write", contents |-> "read"]), Dict(EmptyDict)}

PermissionJob(p) == [steps |-> <<>>, permissions |-> p]

\* the jobs that are combined freely
PermissionJobs ==
    {[steps |-> <<>>], PermissionJob(Str(WriteAll)),
     PermissionJob(Dict([contents |-> "write"])),
     PermissionJob(Dict([issues |-> "write", contents |-> "read"]))}

PermissionTops == {Top} \cup {Top @@ [permissions |-> p] : p \in PermissionValues}

PermDocs ==
    {WithJobs(top, js) : top \in PermissionTops,
                         js \in SeqsUpTo(PermissionJobs, MaxJobs) \ {<<>>}}
    \cup {WithJobs(Top, <<PermissionJob(p)>>) : p \in PermissionValues}
    \cup {[name |-> "ci", permissions |-> Str(WriteAll)]}

\* documents that differ in their runners only
RunnerJob(body) == [steps |-> <<>>] @@ body

\* the jobs that are combined freely
RunnerJobs ==
    {RunnerJob(EmptyDict),
     RunnerJob("runs-on" :> Str("ubuntu-latest")),
     RunnerJob("runs-on" :> Str("self-hosted")),
     RunnerJob("runs-on" :> List(<<"ubuntu-latest", "gpu">>)),
     RunnerJob("runs-on" :> Dict([group |-> "big-runners"])),
     RunnerJob([strategy |-> [matrix |-> [runner |-> List(<<"ubuntu-latest", "arm-box">>)]]])}

\* the other shapes of a job, one job each
RunnerShapes ==
    {RunnerJob("runs-on" :> List(<<"ubuntu-latest", "macos-12">>)),
     RunnerJob("runs-on" :> Dict([group |-> "ubuntu-latest"])),
     RunnerJob("runs-on" :> Dict([labels |-> "gpu"])),
     RunnerJob([strategy |-> EmptyDict]),
     RunnerJob([strategy |-> [matrix |-> [os |-> List(<<"linux">>)]]]),
     RunnerJob([strategy |-> [matrix |-> [runner |-> List(<<"ubuntu-latest", "windows-2022">>)]]]),
     RunnerJob([strategy |-> [matrix |-> [runner |-> Str("arm-box")]]]),
     RunnerJob([strategy |-> [matrix |-> [runner |-> List(<<"arm-box">>)]]]
                  @@ ("runs-on" :> Str("ubuntu-latest"))),
     RunnerJob([strategy |-> [matrix |-> [runner |-> List(<<"macos-13">>)]]]
                  @@ ("runs-on" :> Str("self-hosted")))}

RunnerDocs ==
    {WithJobs(Top, js) : js \in SeqsUpTo(RunnerJobs, MaxJobs) \ {<<>>}}
    \cup {WithJobs(Top, <<j>>) : j \in RunnerShapes}
    \cup {[on |-> Str("push")]}

\* a few documents of every kind, for sequences of calls on one Analyzer
HistDocs ==
    {[name |-> "ci", on |-> Str("push")],
     [name |-> "ci", jobs |-> <<[steps |-> <<StepCheckoutTag, StepRun>>]>>],
     WithJobs(Top, <<[steps |-> <<StepRun>>], JobNoSteps>>),
     WithJobs(Top, <<[steps |-> <<>>]>>),
     WithJobs(Top, <<[steps |-> <<StepCheckoutTag, StepInjection>>]>>),
     WithJobs(Top, <<[steps |-> <<StepAwsNoWith>>], [steps |-> <<StepPrApprove>>]>>),
     WithJobs(Top @@ [permissions |-> Str(WriteAll)],
              <<[steps |-> <<StepUnsecureEnv>>] @@ ("runs-on" :> Str("self-hosted"))>>)}

NoDoc == [none |-> "none"]

\* the values of ignore_checks: None or [], the ids as get_checks returns them,
\* the ids as they are printed (without the leading underscore), two of those
IgnoreChoices ==
    {<<>>,
     [i \in 1..Len(RegistryChecks) |-> RegistryChecks[i].name],
     [i \in 1..Len(RegistryChecks) |-> Tail(RegistryChecks[i].name)],
     <<Tail(RegistryChecks[5].name), Tail(RegistryChecks[9].name)>>}

-----------------------------------------------------------------------------
(* The Analyzer.                                                           *)

\* Analyzer.__init__; self.jobs does not exist until the first run_checks, and
\* nothing reads it before run_checks assigns it
AnalyzerInit ==
    /\ ignore_warnings \in BOOLEAN
    /\ ignore_checks \in IgnoreChoices
    /\ verbose \in BOOLEAN
    /\ checks = RegistryChecks
    /\ action = EmptyDict
    /\ jobs = <<>>
    /\ pc = "ready"
    /\ idx = 0
    /\ passed_all_checks = TRUE
    /\ fail_checks = <<>>
    /\ invoked = <<>>
    /\ outcome = "none"
    /\ ret = "none"
    /\ reported = <<>>

Init ==
    /\ AnalyzerInit
    /\ tracked = NoDoc
    /\ trackedResult = NoDoc

get_checks == [i \in 1..Len(checks) |-> checks[i].name]

\* the result of a call, as its caller sees it
Result(o, r, rep) == [outcome |-> o, ret |-> r, reported |-> rep]

\* what is remembered of the tracked document: its first result, how many of its
\* calls have ended and whether a call with another document ended since
Remember(doc, result) ==
    IF doc = tracked
    THEN IF trackedResult = NoDoc
         THEN [result |-> result, calls |-> 1, others |-> 0]
         ELSE [trackedResult EXCEPT
                  !.calls = IF @ < MaxTrackedCalls THEN @ + 1 ELSE @]
    ELSE IF trackedResult = NoDoc
         THEN NoDoc
         ELSE [trackedResult EXCEPT !.others = 1]

\* the call ends: by a return (of r, after printing rep) or by an exception
Ends(doc, o, r, rep) ==
    /\ pc' = "done"
    /\ outcome' = o
    /\ ret' = r
    /\ reported' = rep
    /\ trackedResult' = Remember(doc, Result(o, r, rep))

\* the lines printed by the loop over fail_checks: check[1:] and its level
Printed(failed) ==
    [i \in 1..Len(failed) |->
        [check |-> Tail(failed[i]),
         level |-> (CHOOSE c \in {checks[k] : k \in 1..Len(checks)} : c.name = failed[i]).level]]

\* run_checks_enter with the failures of the earlier call kept
run_checks_enter_keeps_failures(doc) ==
    /\ pc \in {"ready", "done"}
    /\ action' = doc
    /\ invoked' = <<>>
    /\ IF "jobs" \notin DOMAIN doc
       THEN /\ Ends(doc, "KeyError", "none", <<>>)
            /\ UNCHANGED <<jobs, idx, passed_all_checks, fail_checks>>
       ELSE /\ jobs' = doc["jobs"]
            /\ UNCHANGED <<passed_all_checks, fail_checks>>
            /\ IF _action_has_required_elements(doc, doc["jobs"])
               THEN /\ pc' = "loop"
                    /\ idx' = 1
                    /\ outcome' = "none"
                    /\ ret' = "none"
                    /\ reported' = <<>>
                    /\ UNCHANGED trackedResult
               ELSE /\ Ends(doc, "returned", "True", <<>>)
                    /\ UNCHANGED idx
    /\ UNCHANGED <<ignore_warnings, ignore_checks, verbose, checks, tracked>>

\* run_checks up to the loop over self.checks: lines 275-280, and 294 when the
\* gate fails
run_checks_enter(doc) ==
    /\ pc \in {"ready", "done"}
    /\ action' = doc
    /\ invoked' = <<>>
    /\ IF "jobs" \notin DOMAIN doc
       THEN /\ Ends(doc, "KeyError", "none", <<>>)
            /\ UNCHANGED <<jobs, idx, passed_all_checks, fail_checks>>
       ELSE /\ jobs' = doc["jobs"]
            /\ passed_all_checks' = TRUE
            /\ fail_checks' = <<>>
            /\ IF _action_has_required_elements(doc, doc["jobs"])
               THEN /\ pc' = "loop"
                    /\ idx' = 1
                    /\ outcome' = "none"
                    /\ ret' = "none"
                    /\ reported' = <<>>
                    /\ UNCHANGED trackedResult
               ELSE /\ Ends(doc, "returned", "True", <<>>)
                    /\ UNCHANGED idx
    /\ UNCHANGED <<ignore_warnings, ignore_checks, verbose, checks, tracked>>

\* the `continue` tests without the test of the level
SkippedByNameOnly(check) ==
    \E i \in 1..Len(ignore_checks) : ignore_checks[i] = Tail(check.name)

\* the two `continue` tests of the loop
Skipped(check) ==
    \/ ignore_warnings /\ check.level = "WARN"
    \/ \E i \in 1..Len(ignore_checks) : ignore_checks[i] = Tail(check.name)

\* one iteration of `for check in self.checks.keys()`
run_checks_iterate ==
    /\ pc = "loop"
    /\ idx <= Len(checks)
    /\ LET check == checks[idx]
           result == Predicate(check.name, action, jobs, verbose)
       IN  IF Skipped(check)
           THEN /\ idx' = idx + 1
                /\ UNCHANGED <<pc, invoked, fail_checks, passed_all_checks, outcome,
                               ret, reported, trackedResult>>
           ELSE /\ invoked' = Append(invoked, [check |-> check.name, result |-> result])
                /\ IF result \in Errors
                   THEN /\ Ends(action, result, "none", <<>>)
                        /\ UNCHANGED <<idx, fail_checks, passed_all_checks>>
                   ELSE /\ idx' = idx + 1
                        /\ fail_checks' = IF result = "fail"
                                          THEN Append(fail_checks, check.name)
                                          ELSE fail_checks
                        /\ passed_all_checks' = (passed_all_checks /\ result # "fail")
                        /\ UNCHANGED <<pc, outcome, ret, reported, trackedResult>>
    /\ UNCHANGED <<ignore_warnings, ignore_checks, verbose, checks, action, jobs, tracked>>

\* after the loop: print the failed checks and return, lines 291-294
run_checks_return ==
    /\ pc = "loop"
    /\ idx > Len(checks)
    /\ Ends(action, "returned", IF passed_all_checks THEN "True" ELSE "False",
            Printed(fail_checks))
    /\ UNCHANGED <<ignore_warnings, ignore_checks, verbose, checks, action, jobs, idx,
                   passed_all_checks, fail_checks, invoked, tracked>>

Next ==
    \/ \E doc \in Docs : run_checks_enter(doc)
    \/ run_checks_iterate
    \/ run_checks_return

Spec == Init /\ [][Next]_vars

\* the permissions documents, no check ignored
InitPerm ==
    /\ Init
    /\ ignore_checks = <<>>
    /\ ~ignore_warnings

NextPerm ==
    \/ \E doc \in PermDocs : run_checks_enter(doc)
    \/ run_checks_iterate
    \/ run_checks_return

SpecPerm == InitPerm /\ [][NextPerm]_vars

\* the runner documents, no check ignored
InitRunner ==
    /\ Init
    /\ ignore_checks = <<>>
    /\ ~ignore_warnings

NextRunner ==
    \/ \E doc \in RunnerDocs : run_checks_enter(doc)
    \/ run_checks_iterate
    \/ run_checks_return

SpecRunner == InitRunner /\ [][NextRunner]_vars

\* sequences of calls, the first result of one document remembered
InitHist ==
    /\ AnalyzerInit
    /\ tracked \in HistDocs
    /\ trackedResult = NoDoc

NextHist ==
    \/ \E doc \in HistDocs : run_checks_enter(doc)
    \/ run_checks_iterate
    \/ run_checks_return

SpecHist == InitHist /\ [][NextHist]_vars

-----------------------------------------------------------------------------
(* Vocabulary of the properties.                                           *)

Elements(seq) == {seq[i] : i \in 1..Len(seq)}

\* the subsequence of seq whose elements satisfy keep
RECURSIVE Restrict(_, _)
Restrict(seq, keep) ==
    IF seq = <<>> THEN <<>>
    ELSE IF Head(seq) \in keep THEN <<Head(seq)>> \o Restrict(Tail(seq), keep)
    ELSE Restrict(Tail(seq), keep)

InvokedChecks == [i \in 1..Len(invoked) |-> invoked[i].check]

ReportedChecks == [i \in 1..Len(reported) |-> reported[i].check]

FailedInvoked == {invoked[i].check : i \in {k \in 1..Len(invoked) : invoked[k].result = "fail"}}

\* the Precondition Gate as the specification words it
FailsGate(doc) ==
    \/ "jobs" \notin DOMAIN doc
    \/ "name" \notin DOMAIN doc
    \/ "on" \notin DOMAIN doc
    \/ \E j \in 1..Len(doc["jobs"]) : "steps" \notin DOMAIN doc["jobs"][j]

WarnChecks == {c.name : c \in {k \in Elements(RegistryChecks) : k.level = "WARN"}}

FailChecks == {c.name : c \in {k \in Elements(RegistryChecks) : k.level = "FAIL"}}

InlineScriptCheck == RegistryChecks[5].name

PermissionsCheck == RegistryChecks[4].name

SelfHostedCheck == RegistryChecks[8].name

AwsCheck == RegistryChecks[9].name

\* this call has invoked check c and it yielded r
Yielded(c, r) == \E i \in 1..Len(invoked) : invoked[i].check = c /\ invoked[i].result = r

-----------------------------------------------------------------------------
(* C1: a document that fails the Precondition Gate -- `jobs` missing, `name` *)
(* or `on` missing, or a job without `steps` -- makes run_checks return     *)
(* pass, report no failed rule and invoke no predicate; also when the       *)
(* `jobs` key itself is absent.                                             *)
C1_GateFailureReturnsPass ==
    (pc = "done" /\ FailsGate(action)) =>
        /\ outcome = "returned"
        /\ ret = "True"
        /\ reported = <<>>
        /\ invoked = <<>>

(* C2: a rule id X returned by get_checks that is in the suppressed set is  *)
(* never evaluated nor reported as failed, and with every id of get_checks  *)
(* suppressed every call returns pass (stated here for the documents that   *)
(* have `jobs`; C1 covers the others).                                      *)
C2_SuppressedByDiscoveredId ==
    /\ \A X \in Elements(get_checks) :
            X \in Elements(ignore_checks) =>
                /\ X \notin Elements(InvokedChecks)
                /\ Tail(X) \notin Elements(ReportedChecks)
    /\ (/\ Elements(get_checks) \subseteq Elements(ignore_checks)
        /\ pc = "done"
        /\ "jobs" \in DOMAIN action) =>
            (outcome = "returned" /\ ret = "True")

(* C3: with ignore_warnings set no WARN rule is evaluated or reported, a    *)
(* gate-passing document on which every FAIL rule passes yields pass, and   *)
(* the FAIL rules that are not suppressed by name are evaluated as without  *)
(* the flag: a call that returns has invoked each of them and reports those *)
(* that failed.                                                             *)
C3_IgnoreWarnings ==
    ignore_warnings =>
        /\ Elements(InvokedChecks) \cap WarnChecks = {}
        /\ \A i \in 1..Len(reported) : reported[i].level # "WARN"
        /\ (pc = "done" /\ ~FailsGate(action)
                /\ \A c \in FailChecks : Predicate(c, action, jobs, verbose) = "pass") =>
              (outcome = "returned" /\ ret = "True" /\ reported = <<>>)
        /\ (pc = "done" /\ ~FailsGate(action) /\ outcome = "returned") =>
              \A c \in FailChecks :
                  Tail(c) \notin Elements(ignore_checks) =>
                      /\ Yielded(c, Predicate(c, action, jobs, verbose))
                      /\ (Predicate(c, action, jobs, verbose) = "fail") <=>
                            (Tail(c) \in Elements(ReportedChecks))

\* a call under ignore_warnings on a gate-passing document with an inline script,
\* whose WARN rule would fail, has invoked predicates and returned pass
C3_Witness ==
    /\ ignore_warnings
    /\ pc = "done"
    /\ ~FailsGate(action)
    /\ _check_for_inline_script(jobs, verbose) = "fail"
    /\ Tail(InlineScriptCheck) \notin Elements(ignore_checks)
    /\ invoked # <<>>
    /\ outcome = "returned"
    /\ ret = "True"

(* C4: on a gate-passing document run_checks evaluates every non-suppressed *)
(* rule, also after an earlier rule has failed; the reported list is the    *)
(* registry order restricted to the non-suppressed rules whose predicate    *)
(* returned false, and the verdict is fail exactly when it is non-empty.    *)
C4_AllRulesEvaluated ==
    (pc = "done" /\ ~FailsGate(action)) =>
        LET applicable == {c \in Elements(checks) : ~Skipped(c)}
            names == [i \in 1..Len(checks) |-> checks[i].name]
        IN  /\ outcome = "returned"
            /\ InvokedChecks = Restrict(names, {c.name : c \in applicable})
            /\ ReportedChecks =
                  [i \in 1..Len(Restrict(names, FailedInvoked)) |->
                      Tail(Restrict(names, FailedInvoked)[i])]
            /\ (ret = "False") <=> (reported # <<>>)

(* C5: diagnostics never affect the outcome: every predicate yields under   *)
(* verbose what it yields without, also on steps that have no `name`.       *)
C5_VerboseSameOutcome ==
    \A i \in 1..Len(invoked) :
        invoked[i].result = Predicate(invoked[i].check, action, jobs, FALSE)

(* C6: a step that lacks the field a rule inspects is no match for the rule *)
(* and raises nothing: without diagnostics, where no step name is read, a  *)
(* predicate passes or fails and the call on a document with `jobs` returns.*)
C6_MissingFieldNoError ==
    ~verbose =>
        /\ \A i \in 1..Len(invoked) : invoked[i].result \in {"pass", "fail"}
        /\ (pc = "done" /\ "jobs" \in DOMAIN action) => outcome = "returned"

(* C7: the non-OIDC AWS credentials rule, when it returns, fails exactly    *)
(* when some step uses the configure-aws-credentials action and that step's *)
(* `with` has aws-access-key-id or web-identity-token-file.                 *)
C7_AwsFailsIffNonOidcInput ==
    \A i \in 1..Len(invoked) :
        (invoked[i].check = AwsCheck /\ invoked[i].result \in {"pass", "fail"}) =>
            ((invoked[i].result = "fail") <=>
                \E s \in Elements(AllSteps(jobs)) :
                    /\ AwsStep(s)
                    /\ "with" \in DOMAIN s
                    /\ (DOMAIN s["with"]) \cap non_oidc_inputs # {})

\* a permissions value that the rule calls dangerous
DangerousGrant(p) ==
    \/ p.t = "str" /\ p.v = WriteAll
    \/ /\ p.t = "dict"
       /\ \E scope \in {"contents", "deployments", "packages", "actions"} :
             scope \in DOMAIN p.v /\ p.v[scope] = "write"

(* C8: the dangerous-write-permissions rule fails exactly when the          *)
(* document-level permissions or some job's permissions is write-all or     *)
(* maps contents, deployments, packages or actions to write; so absent     *)
(* permissions never fail it and a document-level write-all fails it        *)
(* whatever the jobs' permissions are.                                      *)
C8_DangerousPermissions ==
    \A i \in 1..Len(invoked) :
        invoked[i].check = PermissionsCheck =>
            /\ invoked[i].result \in {"pass", "fail"}
            /\ (invoked[i].result = "fail") <=>
                  \/ "permissions" \in DOMAIN action /\ DangerousGrant(action["permissions"])
                  \/ \E j \in 1..Len(jobs) :
                        /\ "permissions" \in DOMAIN jobs[j]
                        /\ DangerousGrant(jobs[j]["permissions"])

\* the rule has failed a document whose only dangerous grant is the write-all of
\* its last job, after a job with a harmless mapping
C8_Witness ==
    /\ Yielded(PermissionsCheck, "fail")
    /\ "permissions" \in DOMAIN action
    /\ ~DangerousGrant(action["permissions"])
    /\ Len(jobs) = MaxJobs
    /\ "permissions" \in DOMAIN jobs[MaxJobs]
    /\ IsWriteAll(jobs[MaxJobs]["permissions"])
    /\ \A j \in 1..(MaxJobs - 1) :
          "permissions" \in DOMAIN jobs[j] /\ ~DangerousGrant(jobs[j]["permissions"])

\* the runner labels a job names, in runs-on or in the matrix runner list
RunnerLabels(job) ==
    (IF "runs-on" \notin DOMAIN job THEN {}
     ELSE IF job["runs-on"].t = "str" THEN {job["runs-on"].v}
     ELSE IF job["runs-on"].t = "list" THEN Elements(job["runs-on"].v)
     ELSE IF "group" \in DOMAIN job["runs-on"].v THEN {job["runs-on"].v["group"]}
     ELSE {})
    \cup
    (IF /\ "strategy" \in DOMAIN job
        /\ "matrix" \in DOMAIN job["strategy"]
        /\ "runner" \in DOMAIN job["strategy"]["matrix"]
        /\ job["strategy"]["matrix"]["runner"].t = "list"
     THEN Elements(job["strategy"]["matrix"]["runner"].v)
     ELSE {})

(* C9: the self-hosted-runner rule fails exactly when some job names, in    *)
(* runs-on (string, sequence, group of a mapping) or in its matrix runner  *)
(* list, a label outside the allow-list, whichever job and whichever field  *)
(* it is; a job with neither never fails it.                                *)
C9_SelfHostedRunners ==
    \A i \in 1..Len(invoked) :
        invoked[i].check = SelfHostedCheck =>
            ((invoked[i].result = "fail") <=>
                \E j \in 1..Len(jobs) :
                    RunnerLabels(jobs[j]) \ Elements(default_runners) # {})

\* the rule has failed a document whose last job alone is offending, by its
\* matrix runner list
C9_Witness ==
    /\ Yielded(SelfHostedCheck, "fail")
    /\ Len(jobs) = MaxJobs
    /\ "runs-on" \notin DOMAIN jobs[MaxJobs]
    /\ RunnerLabels(jobs[MaxJobs]) \ Elements(default_runners) # {}
    /\ \A j \in 1..(MaxJobs - 1) :
          /\ RunnerLabels(jobs[j]) # {}
          /\ RunnerLabels(jobs[j]) \subseteq Elements(default_runners)

(* C10: over any sequence of calls on one Analyzer a call's result depends  *)
(* on its document and the configuration only: a document evaluated again  *)
(* gives the result it gave first, the job table and the failures of a call *)
(* are those of its own document, and the registry never changes.           *)
C10_CallsIndependent ==
    /\ checks = RegistryChecks
    /\ (pc = "done" /\ action = tracked /\ trackedResult # NoDoc) =>
            trackedResult.result = Result(outcome, ret, reported)
    /\ pc = "loop" =>
            /\ jobs = action["jobs"]
            /\ Elements(fail_checks) = FailedInvoked
            /\ passed_all_checks <=> (fail_checks = <<>>)
    /\ (pc = "done" /\ outcome = "returned") =>
            Elements(ReportedChecks) = {Tail(c) : c \in FailedInvoked}

\* the tracked document fails rules and has been evaluated a second time, after
\* calls with other documents
C10_Witness ==
    /\ pc = "done"
    /\ action = tracked
    /\ trackedResult # NoDoc
    /\ trackedResult.calls >= 2
    /\ trackedResult.others >= 1
    /\ outcome = "returned"
    /\ ret = "False"

=============================================================================
